---- MODULE Spec2Model ----
(***************************************************************************)
(* Model of unpack_data.py, the unpacker of "RDFZ" data archives.          *)
(*                                                                         *)
(* A byte string is a sequence of numbers 0..255; a text string (the       *)
(* result of bytes.decode) is a sequence of code points.  The archive is   *)
(* modelled at the byte level: the header, the metadata block and the      *)
(* entry table are parsed from the bytes exactly as the code parses them.  *)
(***************************************************************************)
EXTENDS Integers, Sequences, FiniteSets, TLC

VARIABLES
    archive,      \* the bytes of the file at data_path
    do_convert,   \* the do_convert argument of unpack
    pc,           \* "start", "loop", "done" or "fatal" (an exception left unpack)
    err,          \* the exception that left unpack, "" if none
    exts,         \* meta["exts"]
    groups,       \* meta["groups"]
    entries,      \* the entry table, a sequence of 5-tuples
    i,            \* number of entries the loop has gone through
    name_counts,  \* the dict name_counts
    files,        \* the output directory: a set of [path, data]
    writes,       \* history of the file writes, in order
    warnings      \* history of the "[warn]" lines, in order

vars == <<archive, do_convert, pc, err, exts, groups, entries, i, name_counts,
          files, writes, warnings>>

----------------------------------------------------------------------------
(* Byte cursor primitives *)

Min(a, b) == IF a < b THEN a ELSE b

\* f.read(n) with the cursor at pos: at most n bytes, fewer at the end of file
Read(buf, pos, n) == SubSeq(buf, pos + 1, Min(pos + n, Len(buf)))

\* data[k:]
From(data, k) == SubSeq(data, k + 1, Len(data))

\* struct.unpack("<I", d)[0]
LE32(d) == d[1] + 256 * d[2] + 65536 * d[3] + 16777216 * d[4]

\* bytes.decode("utf-8", errors="replace") on byte strings made of ASCII bytes
\* and of bytes that can start no UTF-8 sequence, each of which becomes U+FFFD
Decode(data) == [k \in 1..Len(data) |-> IF data[k] < 128 THEN data[k] ELSE 65533]

(* A stream being read: the bytes buf, the cursor pos, the values read so   *)
(* far (vals, the last one last), the exception raised (err, "" if none),  *)
(* and whether the metadata size warning was printed.  Once err is set the *)
(* reads that follow do nothing: the exception has left the function.      *)

open(buf) == [buf |-> buf, pos |-> 0, vals |-> <<>>, err |-> "", warn |-> FALSE]

raise(f, e) == [f EXCEPT !.err = e]

\* the last value read, and the stream without it
top(f) == f.vals[Len(f.vals)]
pop(f) == [f EXCEPT !.vals = SubSeq(@, 1, Len(@) - 1)]

\* the stream with its last n values made one list
collect(f, n) ==
    IF f.err # "" THEN f
    ELSE [f EXCEPT !.vals = SubSeq(@, 1, Len(@) - n) \o <<SubSeq(@, Len(@) - n + 1, Len(@))>>]

read_u32(f) ==
    IF f.err # "" THEN f
    ELSE IF Len(Read(f.buf, f.pos, 4)) # 4 THEN raise(f, "EOFError")
    ELSE [f EXCEPT !.pos = @ + 4, !.vals = Append(@, LE32(Read(f.buf, f.pos, 4)))]

\* lines 17-22, ln being the stream after ln = read_u32(f)
read_str_of_len(ln) ==
    IF ln.err # "" THEN ln
    ELSE IF top(ln) = 0 THEN [ln EXCEPT !.vals = Append(pop(ln).vals, <<>>)]
    ELSE IF Len(Read(ln.buf, ln.pos, top(ln))) # top(ln) THEN raise(pop(ln), "EOFError")
    ELSE [ln EXCEPT !.pos = @ + top(ln),
                    !.vals = Append(pop(ln).vals, Decode(Read(ln.buf, ln.pos, top(ln))))]

read_len_str(f) == read_str_of_len(read_u32(f))

\* [read_len_str(s) for _ in range(n)]
RECURSIVE read_n_strs(_, _)
read_n_strs(f, n) ==
    IF n = 0 \/ f.err # "" THEN f ELSE read_n_strs(read_len_str(f), n - 1)

\* lines 36-37 and 38-39, cnt being the stream after the count was read
read_len_strs(cnt) ==
    IF cnt.err # "" THEN cnt ELSE collect(read_n_strs(pop(cnt), top(cnt)), top(cnt))

----------------------------------------------------------------------------
(* zlib: the streams of the model are zlib streams of one stored block,    *)
(* 78 01 | 01 | LEN (2, little-endian) | ~LEN | data | Adler-32 (4, big-   *)
(* endian); every other byte string of the model is one zlib rejects.      *)

\* the sum of w(k) * data[k] for k in lo..hi, where w(k) is 1 or hi0 - k + 1
RECURSIVE ByteSum(_, _, _, _)
ByteSum(data, lo, hi, hi0) ==
    IF lo > hi THEN 0
    ELSE IF lo = hi THEN (IF hi0 = 0 THEN 1 ELSE hi0 - lo + 1) * data[lo]
    ELSE LET mid == (lo + hi) \div 2
         IN  ByteSum(data, lo, mid, hi0) + ByteSum(data, mid + 1, hi, hi0)

\* Adler-32: a = 1 + the sum of the bytes, b = the sum of the values a takes,
\* both modulo 65521; the checksum is b, then a, big-endian
Adler32(data) ==
    LET n == Len(data)
        a == (1 + ByteSum(data, 1, n, 0)) % 65521
        b == (n + ByteSum(data, 1, n, n)) % 65521
    IN  <<b \div 256, b % 256, a \div 256, a % 256>>

\* zlib.compress(data, 0)
ZlibStored(data) ==
    <<120, 1, 1, Len(data) % 256, Len(data) \div 256,
      255 - (Len(data) % 256), 255 - (Len(data) \div 256)>> \o data \o Adler32(data)

\* zlib.decompress(s): the data, or zlib.error
zlib_decompress(s) ==
    IF Len(s) < 7 \/ s[1] # 120 \/ s[2] # 1 \/ s[3] # 1
       \/ s[4] + s[6] # 255 \/ s[5] + s[7] # 255
    THEN [err |-> "zlib.error", val |-> <<>>]
    ELSE LET n == s[4] + 256 * s[5]
             data == SubSeq(s, 8, 7 + n)
         IN  IF Len(s) < 11 + n \/ SubSeq(s, 8 + n, 11 + n) # Adler32(data)
             THEN [err |-> "zlib.error", val |-> <<>>]
             ELSE [err |-> "", val |-> data]

----------------------------------------------------------------------------
(* parse_meta *)

\* lines 28-32: the stream s over the decompressed metadata, z being
\* zlib.decompress(meta_comp[4:])
open_meta(meta_comp, z) ==
    IF z.err # "" THEN raise(open(<<>>), z.err)
    ELSE [open(z.val) EXCEPT !.warn = Len(z.val) # LE32(meta_comp)]

\* the stream after parse_meta: vals is <<unk0, unk1, method_name, exts, groups>>
parse_meta(meta_comp) ==
    IF Len(meta_comp) < 4 THEN raise(open(<<>>), "ValueError")
    ELSE read_len_strs(read_u32(
         read_len_strs(read_u32(
         read_len_str(
         read_u32(
         read_u32(
         open_meta(meta_comp, zlib_decompress(From(meta_comp, 4))))))))))

----------------------------------------------------------------------------
(* unpack, up to the loop over the entries *)

\* b"RDFZ"
RDFZ == <<82, 68, 70, 90>>

\* lines 93-95
read_magic(f) ==
    IF Read(f.buf, f.pos, 4) # RDFZ THEN raise(f, "ValueError")
    ELSE [f EXCEPT !.pos = @ + 4]

\* lines 98-103, sz being the stream after meta_comp_size was read and meta the
\* stream after parse_meta
parsed_meta(sz, meta) ==
    IF meta.err # "" THEN [raise(pop(sz), meta.err) EXCEPT !.warn = meta.warn]
    ELSE [sz EXCEPT !.pos = @ + top(sz), !.warn = meta.warn,
                    !.vals = pop(sz).vals \o <<meta.vals[4], meta.vals[5]>>]

read_meta(sz) ==
    IF sz.err # "" THEN sz
    ELSE IF Len(Read(sz.buf, sz.pos, top(sz))) # top(sz) THEN raise(pop(sz), "EOFError")
    ELSE parsed_meta(sz, parse_meta(Read(sz.buf, sz.pos, top(sz))))

\* struct.unpack("<5I", f.read(20))
read_entry(f) ==
    IF f.err # "" THEN f
    ELSE IF Len(Read(f.buf, f.pos, 20)) # 20 THEN raise(f, "struct.error")
    ELSE [f EXCEPT !.pos = @ + 20,
                   !.vals = Append(@, [offset |-> LE32(Read(f.buf, f.pos, 4)),
                                       size |-> LE32(Read(f.buf, f.pos + 4, 4)),
                                       ext_id |-> LE32(Read(f.buf, f.pos + 8, 4)),
                                       group_id |-> LE32(Read(f.buf, f.pos + 12, 4)),
                                       method_id |-> LE32(Read(f.buf, f.pos + 16, 4))])]

RECURSIVE read_n_entries(_, _)
read_n_entries(f, n) ==
    IF n = 0 \/ f.err # "" THEN f ELSE read_n_entries(read_entry(f), n - 1)

\* line 105, cnt being the stream after entry_count was read
read_entries(cnt) ==
    IF cnt.err # "" THEN cnt ELSE collect(read_n_entries(pop(cnt), top(cnt)), top(cnt))

\* lines 93-105: the stream after them; vals is <<label, exts, groups, entries>>
read_header(buf) ==
    read_entries(read_u32(
    read_meta(read_u32(
    read_len_str(
    read_magic(open(buf)))))))

----------------------------------------------------------------------------
(* Text *)

\* "."
Dot == <<46>>

\* "_"
Underscore == <<95>>

\* "/"
Slash == <<47>>

\* str(n) for n >= 0
RECURSIVE Str(_)
Str(n) == IF n < 10 THEN <<48 + n>> ELSE Str(n \div 10) \o <<48 + (n % 10)>>

\* f"{n:02d}"
Format02d(n) == IF n < 10 THEN <<48>> \o Str(n) ELSE Str(n)

\* os.path.join(a, b)
path_join(a, b) ==
    IF b # <<>> /\ b[1] = Slash[1] THEN b
    ELSE IF a = <<>> \/ a[Len(a)] = Slash[1] THEN a \o b
    ELSE a \o Slash \o b

\* data.startswith(prefix)
StartsWith(data, prefix) ==
    Len(data) >= Len(prefix) /\ SubSeq(data, 1, Len(prefix)) = prefix

\* data.find(magic): the least offset where magic occurs, -1 if there is none
Find(data, magic) ==
    LET hits == {k \in 0..(Len(data) - Len(magic)) :
                    SubSeq(data, k + 1, k + Len(magic)) = magic}
    IN  IF hits = {} THEN -1 ELSE CHOOSE k \in hits : \A m \in hits : k <= m

\* the out_dir argument of unpack
out_dir == <<111, 117, 116>>

----------------------------------------------------------------------------
(* The converter *)

sound == <<115, 111, 117, 110, 100>>
texture == <<116, 101, 120, 116, 117, 114, 101>>
jimg_texture == <<106, 105, 109, 103, 95, 116, 101, 120, 116, 117, 114, 101>>
gscene == <<103, 115, 99, 101, 110, 101>>
converted_dir == <<95, 99, 111, 110, 118, 101, 114, 116, 101, 100>>

ogg == <<111, 103, 103>>
wav == <<119, 97, 118>>
dds == <<100, 100, 115>>
jpg == <<106, 112, 103>>
png == <<112, 110, 103>>
webm == <<119, 101, 98, 109>>

\* b"OggS", b"RIFF", b"DDS ", b"\xff\xd8\xff" of maybe_convert
OggS == <<79, 103, 103, 83>>
RIFF == <<82, 73, 70, 70>>
DDS == <<68, 68, 83, 32>>
JpegSOI == <<255, 216, 255>>

\* the list magics of detect_embedded
magics ==
    << [magic |-> <<137, 80, 78, 71, 13, 10, 26, 10>>, ext |-> png],
       [magic |-> <<255, 216, 255>>, ext |-> jpg],
       [magic |-> <<79, 71, 71, 83>>, ext |-> ogg],
       [magic |-> <<82, 73, 70, 70>>, ext |-> wav],
       [magic |-> <<68, 68, 83, 32>>, ext |-> dds],
       [magic |-> <<26, 69, 223, 163>>, ext |-> webm] >>

write_converted_flat(base_name, ext, data) ==
    [path |-> path_join(path_join(out_dir, converted_dir), base_name), data |-> data]

\* the file write of write_converted
write_converted(base_name, ext, data) ==
    [path |-> path_join(path_join(path_join(out_dir, converted_dir), ext), base_name),
     data |-> data]

\* (ext, idx) of the first entry of magics, in list order, that occurs in data;
\* found is FALSE for (None, None)
detect_embedded(data) ==
    LET found == {m \in 1..Len(magics) : Find(data, magics[m].magic) # -1}
    IN  IF found = {} THEN [found |-> FALSE, ext |-> <<>>, idx |-> -1]
        ELSE LET m == CHOOSE x \in found : \A y \in found : x <= y
             IN  [found |-> TRUE, ext |-> magics[m].ext,
                  idx |-> Find(data, magics[m].magic)]

\* the files maybe_convert writes, in order: none or one
maybe_convert(ext, data, name_tag) ==
    IF ext = sound THEN
        IF StartsWith(data, OggS)
        THEN <<write_converted(name_tag \o Dot \o ogg, sound, data)>>
        ELSE IF StartsWith(data, RIFF)
        THEN <<write_converted(name_tag \o Dot \o wav, sound, data)>>
        ELSE <<>>
    ELSE IF ext = texture THEN
        IF StartsWith(data, DDS)
        THEN <<write_converted(name_tag \o Dot \o dds, texture, data)>>
        ELSE <<>>
    ELSE IF ext = jimg_texture THEN
        IF Len(data) > 6 /\ StartsWith(From(data, 4), JpegSOI)
        THEN <<write_converted(name_tag \o Dot \o jpg, jimg_texture, From(data, 4))>>
        ELSE <<>>
    ELSE IF ext = gscene THEN
        LET emb == detect_embedded(data)
        IN  IF emb.found
            THEN <<write_converted(name_tag \o Dot \o emb.ext, gscene, From(data, emb.idx))>>
            ELSE <<>>
    ELSE <<>>

----------------------------------------------------------------------------
(* The archives unpack is run on.  They are laid out the way unpack reads  *)
(* them: magic, label, metadata block, entry table, then the blocks of the *)
(* entries one after the other.                                            *)

\* most entries of an archive
MaxEntries == 3

\* most entries of an archive of the converter's categories
MaxConvEntries == 2

\* struct.pack("<I", n)
U32(n) == <<n % 256, (n \div 256) % 256, (n \div 65536) % 256, (n \div 16777216) % 256>>

\* a length-prefixed string, as read_len_str reads it
LenStr(str) == U32(Len(str)) \o str

RECURSIVE LenStrs(_, _)
LenStrs(strs, k) == IF k = 0 THEN <<>> ELSE LenStrs(strs, k - 1) \o LenStr(strs[k])

\* the metadata parse_meta reads: unk0, unk1, method name, extensions, groups
MetaBytes(xs, gs) ==
    U32(0) \o U32(0) \o LenStr(<<122, 108, 105, 98>>)
    \o U32(Len(xs)) \o LenStrs(xs, Len(xs)) \o U32(Len(gs)) \o LenStrs(gs, Len(gs))

\* the metadata block: the declared size (off by delta), then the zlib stream
MetaComp(xs, gs, delta) ==
    U32(Len(MetaBytes(xs, gs)) + delta) \o ZlibStored(MetaBytes(xs, gs))

\* total length of the blocks of items[1..k]
RECURSIVE BlocksLen(_, _)
BlocksLen(items, k) == IF k = 0 THEN 0 ELSE BlocksLen(items, k - 1) + Len(items[k].blob)

\* the blocks of items[1..k], one after the other
RECURSIVE Blocks(_, _)
Blocks(items, k) == IF k = 0 THEN <<>> ELSE Blocks(items, k - 1) \o items[k].blob

\* the archive with the metadata block meta_comp and the entries items; an item
\* gives its block, the size it declares, and whether its offset is past the end
Pack(meta_comp, items) ==
    LET n == Len(items)
        head == RDFZ \o LenStr(<<>>) \o U32(Len(meta_comp)) \o meta_comp \o U32(n)
        base == Len(head) + 20 * n
        end == base + BlocksLen(items, n)
        rec(k) == U32(IF items[k].far THEN end + 3 ELSE base + BlocksLen(items, k - 1))
                  \o U32(items[k].size) \o U32(items[k].ext_id)
                  \o U32(items[k].group_id) \o U32(items[k].method_id)
        RECURSIVE table(_)
        table(k) == IF k = 0 THEN <<>> ELSE table(k - 1) \o rec(k)
    IN  head \o table(n) \o Blocks(items, n)

Item(x, g, m, b) ==
    [ext_id |-> x, group_id |-> g, method_id |-> m, blob |-> b, size |-> Len(b), far |-> FALSE]

\* an entry whose block lies past the end of the file
FarItem(x, g, m) ==
    [ext_id |-> x, group_id |-> g, method_id |-> m, blob |-> <<>>, size |-> 2, far |-> TRUE]

\* all sequences over pool of lengths lo..hi
SeqsOf(pool, lo, hi) == UNION {[1..n -> pool] : n \in lo..hi}

\* names that collide: "a_02" is the second file of group "a", and "a.b" + "." + "c"
\* is "a" + "." + "b.c"
NameTables ==
    { [exts |-> << <<101>> >>, groups |-> << <<97>>, <<97, 95, 48, 50>> >>],
      [exts |-> << <<99>>, <<98, 46, 99>> >>, groups |-> << <<97, 46, 98>>, <<97>> >>] }

NameItems ==
    {Item(x, g, 0, <<7>>) : x \in 0..1, g \in 0..1}
    \cup {FarItem(0, 0, 0), Item(0, 2, 0, <<7>>)}

NameArchives ==
    {Pack(MetaComp(t.exts, t.groups, 0), items) :
        t \in NameTables, items \in SeqsOf(NameItems, 0, MaxEntries)}

\* a zlib stream whose checksum is wrong
BadStream(data) ==
    LET z == ZlibStored(data)
    IN  [z EXCEPT ![Len(z)] = (z[Len(z)] + 1) % 256]

MethodItems ==
    { Item(0, 0, 0, <<1, 2, 3>>),
      Item(0, 0, 0, <<>>),
      Item(0, 0, 2, U32(2) \o ZlibStored(<<5, 6>>)),
      Item(0, 0, 1, U32(2) \o ZlibStored(<<5, 6>>)),
      Item(0, 0, 1, U32(9) \o ZlibStored(<<5, 6>>)),
      Item(0, 0, 1, <<1, 2, 3>>),
      Item(0, 0, 1, U32(2) \o BadStream(<<5, 6>>)),
      FarItem(0, 0, 1) }

MethodArchives ==
    {Pack(MetaComp(<< <<101>> >>, << <<97>> >>, 0), items) :
        items \in SeqsOf(MethodItems, 0, MaxEntries)}

\* payloads for the converter
PngMagic == <<137, 80, 78, 71, 13, 10, 26, 10>>

ConvTable ==
    [exts |-> <<sound, texture, jimg_texture, gscene, <<111>> >>, groups |-> << <<103>> >>]

ConvItems ==
    {Item(0, 0, 0, b) : b \in {OggS \o <<1>>, RIFF \o <<1>>, <<1, 2>>}}
    \cup {Item(1, 0, 0, b) : b \in {DDS \o <<1>>, <<1>> \o DDS}}
    \cup {Item(2, 0, 0, b) : b \in {<<1, 2, 3, 4>> \o JpegSOI, JpegSOI \o <<1, 2, 3, 4>>,
                                    <<1, 2, 3, 4, 255, 216>>}}
    \cup {Item(3, 0, 0, b) : b \in {<<222, 173>> \o PngMagic \o <<1>>,
                                    RIFF \o PngMagic,
                                    <<1, 2>> \o OggS \o <<3>>,
                                    <<1>> \o <<79, 71, 71, 83>>,
                                    <<26, 69, 223, 163, 1>>,
                                    <<1, 2, 3>>}}
    \cup {Item(3, 0, 1, U32(5) \o ZlibStored(<<1>> \o RIFF))}
    \cup {Item(4, 0, 0, OggS \o <<1>>)}

ConvArchives ==
    {Pack(MetaComp(ConvTable.exts, ConvTable.groups, 0), items) :
        items \in SeqsOf(ConvItems, 1, MaxConvEntries)}

\* one archive with a stored and a compressed entry, and metadata blocks that
\* decode to something else than their declared size or do not decode
FullItems == <<Item(0, 0, 0, <<1, 2, 3>>), Item(0, 1, 1, U32(2) \o ZlibStored(<<5, 6>>))>>
FullExts == << <<101>> >>
FullGroups == << <<97>>, <<104>> >>
FullArchive == Pack(MetaComp(FullExts, FullGroups, 0), FullItems)

Take(data, n) == SubSeq(data, 1, n)

DamagedArchives ==
    {Take(FullArchive, n) : n \in 0..Len(FullArchive)}
    \cup {[FullArchive EXCEPT ![k] = 88] : k \in 1..4}
    \cup {Pack(mc, FullItems) :
            mc \in { MetaComp(FullExts, FullGroups, 1),
                     <<1, 2, 3>>,
                     <<>>,
                     U32(3) \o BadStream(MetaBytes(FullExts, FullGroups)),
                     U32(3) \o Take(ZlibStored(MetaBytes(FullExts, FullGroups)), 9),
                     U32(3) \o ZlibStored(<<1, 2, 3>>),
                     U32(9) \o ZlibStored(Take(MetaBytes(FullExts, FullGroups), 19)),
                     U32(9) \o ZlibStored(U32(0) \o U32(0) \o LenStr(<<>>) \o U32(2)
                                          \o LenStr(<<101>>)),
                     U32(0) \o ZlibStored(U32(0) \o U32(0) \o LenStr(<<>>) \o U32(1)
                                          \o LenStr(<<101, 255>>) \o U32(1) \o LenStr(<<>>)) }}

\* the runs of unpack: the archive and the do_convert argument, which is False
\* on the archives of one entry of the converter's categories
Inputs ==
    {[archive |-> a, do_convert |-> TRUE] : a \in NameArchives \cup MethodArchives}
    \cup {[archive |-> a, do_convert |-> TRUE] : a \in ConvArchives}
    \cup {[archive |-> Pack(MetaComp(ConvTable.exts, ConvTable.groups, 0), <<it>>),
           do_convert |-> FALSE] : it \in ConvItems}
    \cup {[archive |-> a, do_convert |-> TRUE] : a \in DamagedArchives}

----------------------------------------------------------------------------
(* The loop of unpack over the entries *)

\* lines 124-137 for a block that decodes: the bytes to write
payload_any_method(method_id, blob) ==
    IF method_id # 0 THEN zlib_decompress(From(blob, 4)).val ELSE blob

payload(method_id, blob) ==
    IF method_id = 1 THEN zlib_decompress(From(blob, 4)).val ELSE blob

\* name_counts.get(base_name, 0)
counts_get(counts, base_name) ==
    IF base_name \in DOMAIN counts THEN counts[base_name] ELSE 0

\* name_counts after name_counts[base_name] = count
counts_set(counts, base_name, count) ==
    [b \in (DOMAIN counts) \cup {base_name} |->
        IF b = base_name THEN count ELSE counts[b]]

\* f"{group}.{ext}"
base_name_of(group, ext) == group \o Dot \o ext

name_tag_unpadded(group, count) ==
    IF count = 1 THEN group ELSE group \o Underscore \o Str(count)

\* group if count == 1 else f"{group}_{count:02d}"
name_tag_of(group, count) ==
    IF count = 1 THEN group ELSE group \o Underscore \o Format02d(count)

\* os.path.join(out_dir, ext, base_name if count == 1 else f"{name_tag}.{ext}")
out_path_of(group, ext, count) ==
    path_join(path_join(out_dir, ext),
              IF count = 1 THEN base_name_of(group, ext)
              ELSE name_tag_of(group, count) \o Dot \o ext)

\* open(path, "wb").write(data) on the output directory
write_file(fs, path, data) ==
    {f \in fs : f.path # path} \cup {[path |-> path, data |-> data]}

RECURSIVE write_files(_, _)
write_files(fs, ws) ==
    IF ws = <<>> THEN fs
    ELSE write_files(write_file(fs, Head(ws).path, Head(ws).data), Tail(ws))

\* the entry the loop is at, and what lines 108-120 compute for it
cur == entries[i + 1]
bad_indices == cur.ext_id >= Len(exts) \/ cur.group_id >= Len(groups)
ext == exts[cur.ext_id + 1]
group == groups[cur.group_id + 1]
base_name == base_name_of(group, ext)
count == counts_get(name_counts, base_name) + 1
name_tag == name_tag_of(group, count)
out_path == out_path_of(group, ext, count)
blob == Read(archive, cur.offset, cur.size)

\* print(f"[warn] entry {i}: ...")
warn(kind) == warnings' = Append(warnings, [entry |-> i, kind |-> kind])

\* continue
skip == /\ i' = i + 1
        /\ UNCHANGED <<archive, do_convert, pc, err, exts, groups, entries, files, writes>>

Init ==
    /\ \E inp \in Inputs : archive = inp.archive /\ do_convert = inp.do_convert
    /\ pc = "start"
    /\ err = ""
    /\ exts = <<>>
    /\ groups = <<>>
    /\ entries = <<>>
    /\ i = 0
    /\ name_counts = <<>>
    /\ files = {}
    /\ writes = <<>>
    /\ warnings = <<>>

\* print(f"[warn] meta uncompressed size mismatch: ...")
meta_warning(h) ==
    IF h.warn THEN <<[entry |-> -1, kind |-> "meta size mismatch"]>> ELSE <<>>

\* lines 92-106 without an exception, h being the stream after the header
header_read(h) ==
    /\ h.err = ""
    /\ exts' = h.vals[2]
    /\ groups' = h.vals[3]
    /\ entries' = h.vals[4]
    /\ warnings' = meta_warning(h)
    /\ pc' = "loop"
    /\ UNCHANGED <<archive, do_convert, err, i, name_counts, files, writes>>

\* lines 92-105 raising: bad magic, truncation, a metadata block that does not decode
header_fails(h) ==
    /\ h.err # ""
    /\ err' = h.err
    /\ warnings' = meta_warning(h)
    /\ pc' = "fatal"
    /\ UNCHANGED <<archive, do_convert, exts, groups, entries, i, name_counts, files, writes>>

ReadHeader == pc = "start" /\ header_read(read_header(archive))

HeaderFails == pc = "start" /\ header_fails(read_header(archive))

\* lines 108-110
EntryBadIndices ==
    /\ pc = "loop" /\ i < Len(entries)
    /\ bad_indices
    /\ warn("bad indices")
    /\ skip
    /\ UNCHANGED name_counts

\* the short read raising, as the short reads of read_u32 do
EntryShortRead_Raises ==
    /\ pc = "loop" /\ i < Len(entries)
    /\ ~bad_indices
    /\ name_counts' = counts_set(name_counts, base_name, count)
    /\ Len(blob) # cur.size
    /\ pc' = "fatal"
    /\ err' = "EOFError"
    /\ UNCHANGED <<archive, do_convert, exts, groups, entries, i, files, writes, warnings>>

\* the name counted only once the block is read
EntryShortRead_Uncounted ==
    /\ pc = "loop" /\ i < Len(entries)
    /\ ~bad_indices
    /\ Len(blob) # cur.size
    /\ warn("short read")
    /\ skip
    /\ UNCHANGED name_counts

\* lines 111-123
EntryShortRead ==
    /\ pc = "loop" /\ i < Len(entries)
    /\ ~bad_indices
    /\ name_counts' = counts_set(name_counts, base_name, count)
    /\ Len(blob) # cur.size
    /\ warn("short read")
    /\ skip

\* the entry skipped without a word
EntryBlobTooSmall_Silent ==
    /\ pc = "loop" /\ i < Len(entries)
    /\ ~bad_indices
    /\ name_counts' = counts_set(name_counts, base_name, count)
    /\ Len(blob) = cur.size
    /\ cur.method_id = 1
    /\ Len(blob) < 4
    /\ skip
    /\ UNCHANGED warnings

\* lines 111-127
EntryBlobTooSmall ==
    /\ pc = "loop" /\ i < Len(entries)
    /\ ~bad_indices
    /\ name_counts' = counts_set(name_counts, base_name, count)
    /\ Len(blob) = cur.size
    /\ cur.method_id = 1
    /\ Len(blob) < 4
    /\ warn("blob too small")
    /\ skip

\* zlib.error not caught
EntryZlibError_Raises ==
    /\ pc = "loop" /\ i < Len(entries)
    /\ ~bad_indices
    /\ name_counts' = counts_set(name_counts, base_name, count)
    /\ Len(blob) = cur.size
    /\ cur.method_id = 1
    /\ Len(blob) >= 4
    /\ zlib_decompress(From(blob, 4)).err # ""
    /\ pc' = "fatal"
    /\ err' = "zlib.error"
    /\ UNCHANGED <<archive, do_convert, exts, groups, entries, i, files, writes, warnings>>

\* lines 111-133
EntryZlibError ==
    /\ pc = "loop" /\ i < Len(entries)
    /\ ~bad_indices
    /\ name_counts' = counts_set(name_counts, base_name, count)
    /\ Len(blob) = cur.size
    /\ cur.method_id = 1
    /\ Len(blob) >= 4
    /\ zlib_decompress(From(blob, 4)).err # ""
    /\ warn("zlib error")
    /\ skip

\* the history of the writes of entry i: the primary file, then the converted ones
written(data, conv) ==
    <<[entry |-> i, kind |-> "primary", path |-> out_path, data |-> data]>>
    \o [k \in 1..Len(conv) |->
          [entry |-> i, kind |-> "converted", path |-> conv[k].path, data |-> conv[k].data]]

\* lines 134-141, data being the bytes to write and conv what maybe_convert writes
write_entry(data, conv) ==
    /\ IF cur.method_id = 1 /\ Len(data) # LE32(blob)
       THEN warn("size mismatch")
       ELSE UNCHANGED warnings
    /\ files' = write_files(write_file(files, out_path, data), conv)
    /\ writes' = writes \o written(data, conv)

\* maybe_convert(out_dir, ext, data, name_tag) if do_convert
converted(data) == IF do_convert THEN maybe_convert(ext, data, name_tag) ELSE <<>>

\* lines 111-141 when the entry is written
EntryWrite ==
    /\ pc = "loop" /\ i < Len(entries)
    /\ ~bad_indices
    /\ name_counts' = counts_set(name_counts, base_name, count)
    /\ Len(blob) = cur.size
    /\ cur.method_id = 1 => Len(blob) >= 4 /\ zlib_decompress(From(blob, 4)).err = ""
    /\ write_entry(payload(cur.method_id, blob), converted(payload(cur.method_id, blob)))
    /\ i' = i + 1
    /\ UNCHANGED <<archive, do_convert, pc, err, exts, groups, entries>>

\* line 142
Finish ==
    /\ pc = "loop" /\ i = Len(entries)
    /\ pc' = "done"
    /\ UNCHANGED <<archive, do_convert, err, exts, groups, entries, i, name_counts,
                   files, writes, warnings>>

Next ==
    \/ ReadHeader
    \/ HeaderFails
    \/ EntryBadIndices
    \/ EntryShortRead
    \/ EntryBlobTooSmall
    \/ EntryZlibError
    \/ EntryWrite
    \/ Finish

Spec == Init /\ [][Next]_vars

----------------------------------------------------------------------------
(* What the properties speak of.  Entries are numbered from 0, as the      *)
(* warnings number them; the entries 0..i-1 have been gone through.        *)

Entry(k) == entries[k + 1]
Processed == IF pc \in {"loop", "done"} THEN 0..(i - 1) ELSE {}
InRange(k) == Entry(k).ext_id < Len(exts) /\ Entry(k).group_id < Len(groups)
ExtName(k) == exts[Entry(k).ext_id + 1]
GroupName(k) == groups[Entry(k).group_id + 1]

\* the block of entry k lies within the file
ReadInFull(k) == Entry(k).size = 0 \/ Entry(k).offset + Entry(k).size <= Len(archive)
Block(k) == SubSeq(archive, Entry(k).offset + 1, Entry(k).offset + Entry(k).size)

\* s begins with a complete zlib stream: the stream of the data it announces
WellFormed(str) ==
    /\ Len(str) >= 7
    /\ Len(str) >= 11 + str[4] + 256 * str[5]
    /\ Take(str, 11 + str[4] + 256 * str[5]) = ZlibStored(SubSeq(str, 8, 7 + str[4] + 256 * str[5]))

\* the block of entry k decodes: any block if stored, a declared size and a
\* well-formed stream under method 1
Decodes(k) == Entry(k).method_id = 1 => Entry(k).size >= 4 /\ WellFormed(From(Block(k), 4))

PrimaryWrites(k) == {n \in DOMAIN writes : writes[n].entry = k /\ writes[n].kind = "primary"}
ConvertedWrites(k) == {n \in DOMAIN writes : writes[n].entry = k /\ writes[n].kind = "converted"}
WarningsOf(k) == {n \in DOMAIN warnings : warnings[n].entry = k}

EndsWith(str, suffix) ==
    Len(str) >= Len(suffix) /\ SubSeq(str, Len(str) - Len(suffix) + 1, Len(str)) = suffix

\* the names the specification gives: {group}.{ext}, {group}_{k:02d}.{ext}
TwoDigits(k) == IF k < 10 THEN <<48, 48 + k>> ELSE <<48 + (k \div 10), 48 + (k % 10)>>
SpecTag(g, k) == IF k = 1 THEN g ELSE g \o <<95>> \o TwoDigits(k)
SpecPath(g, e, k) == out_dir \o <<47>> \o e \o <<47>> \o SpecTag(g, k) \o <<46>> \o e
BaseName(k) == GroupName(k) \o <<46>> \o ExtName(k)

\* the place of entry k among the entries in range up to it with its group and
\* extension, and among those with its base name
RankOfPair(k) ==
    Cardinality({j \in 0..k : InRange(j) /\ GroupName(j) = GroupName(k)
                                         /\ ExtName(j) = ExtName(k)})
RankOfBase(k) == Cardinality({j \in 0..k : InRange(j) /\ BaseName(j) = BaseName(k)})

----------------------------------------------------------------------------
(* C1 *)

\* C1 as stated: each processed entry with indices in range and a block that can
\* be read in full is written exactly once, each other entry is written zero
\* times and warned about once, and the loop never aborts.
C1_Original ==
    /\ pc = "fatal" => i = 0
    /\ pc = "done" => i = Len(entries)
    /\ \A k \in Processed :
        IF InRange(k) /\ ReadInFull(k)
        THEN Cardinality(PrimaryWrites(k)) = 1
        ELSE Cardinality(PrimaryWrites(k)) = 0 /\ Cardinality(WarningsOf(k)) = 1

\* C1 amended: the entries written exactly once are those with indices in range,
\* a block read in full and, under method 1, a block of at least 4 bytes whose
\* stream decompresses; every other entry is written zero times and warned about
\* exactly once; the loop never aborts and goes through every entry.
C1_OneFilePerGoodEntry ==
    /\ pc = "fatal" => i = 0
    /\ pc = "done" => i = Len(entries)
    /\ \A k \in Processed :
        IF InRange(k) /\ ReadInFull(k) /\ Decodes(k)
        THEN Cardinality(PrimaryWrites(k)) = 1
        ELSE Cardinality(PrimaryWrites(k)) = 0 /\ Cardinality(WarningsOf(k)) = 1

C1_Witness ==
    /\ pc = "done"
    /\ \E k \in Processed : ~InRange(k) /\ PrimaryWrites(k) = {}
    /\ \E k \in Processed : InRange(k) /\ ~ReadInFull(k) /\ PrimaryWrites(k) = {}
    /\ \E k \in Processed : InRange(k) /\ ReadInFull(k) /\ Cardinality(PrimaryWrites(k)) = 1
                            /\ k = Len(entries) - 1

----------------------------------------------------------------------------
(* C2 *)

\* C2: no two primary writes of a run go to the same path.
C2_UniquePaths ==
    \A m, n \in DOMAIN writes :
        m # n /\ writes[m].kind = "primary" /\ writes[n].kind = "primary"
        => writes[m].path # writes[n].path

----------------------------------------------------------------------------
(* C3 *)

\* C3 as stated: the k-th entry in table order with group g and extension e is
\* written at e/g.e if k = 1 and at e/g_{k:02d}.e if k > 1.
C3_Original ==
    \A n \in DOMAIN writes :
        writes[n].kind = "primary"
        => writes[n].path = SpecPath(GroupName(writes[n].entry), ExtName(writes[n].entry),
                                     RankOfPair(writes[n].entry))

\* C3 amended: k counts the entries in table order, with indices in range, whose
\* base name "{group}.{extension}" is the same string; the k-th, when it is
\* written, is written at e/g.e if k = 1 and at e/g_{k:02d}.e if k > 1.
C3_NamesFollowTableOrder ==
    \A n \in DOMAIN writes :
        writes[n].kind = "primary"
        => writes[n].path = SpecPath(GroupName(writes[n].entry), ExtName(writes[n].entry),
                                     RankOfBase(writes[n].entry))

\* three entries [A, B, C] of one group and extension, all written
C3_Witness ==
    /\ pc = "done" /\ Len(entries) = 3
    /\ \A k \in 0..2 : InRange(k) /\ GroupName(k) = GroupName(0) /\ ExtName(k) = ExtName(0)
                       /\ Entry(k).method_id = 0
    /\ \E a, b, c \in DOMAIN writes :
        /\ writes[a].entry = 0 /\ writes[a].path = SpecPath(GroupName(0), ExtName(0), 1)
        /\ writes[b].entry = 1 /\ writes[b].path = SpecPath(GroupName(0), ExtName(0), 2)
        /\ writes[c].entry = 2 /\ writes[c].path = SpecPath(GroupName(0), ExtName(0), 3)

----------------------------------------------------------------------------
(* C4 *)

\* the length of FullArchive up to the end of its entry table
FullHeaderLen == Len(FullArchive) - BlocksLen(FullItems, Len(FullItems))

\* C4: a run that ends in a fatal failure has written no file; a run on an
\* archive whose first 4 bytes are not RDFZ, or that ends before the end of the
\* entry table, ends in a fatal failure.
C4_FatalWritesNothing ==
    /\ pc = "fatal" => files = {} /\ writes = <<>>
    /\ pc # "start" /\ Read(archive, 0, 4) # RDFZ => pc = "fatal"
    /\ pc # "start" /\ Len(archive) < FullHeaderLen /\ archive = Take(FullArchive, Len(archive))
       => pc = "fatal"

\* the archive ends inside the entry table
C4_Witness ==
    /\ pc = "fatal" /\ err = "struct.error"
    /\ Len(archive) < FullHeaderLen /\ Len(archive) > FullHeaderLen - 20
    /\ files = {}

----------------------------------------------------------------------------
(* C5 *)

\* entry i is in range, read in full, of method 1, and its block is too short or
\* its stream does not decompress
C5_Case ==
    /\ pc = "loop" /\ i < Len(entries)
    /\ InRange(i) /\ ReadInFull(i)
    /\ Entry(i).method_id = 1 /\ ~Decodes(i)

\* C5: the step of the loop on such an entry writes nothing, leaves the files of
\* the earlier entries as they are, prints one warning for the entry, does not
\* abort, and goes on to the next entry; the loop ends only past the last entry.
C5_SkipsThatEntryAlone ==
    /\ [](pc = "done" => i = Len(entries))
    /\ [][C5_Case => /\ pc' = "loop" /\ i' = i + 1 /\ entries' = entries
                     /\ files' = files
                     /\ writes' = writes
                     /\ Len(warnings') = Len(warnings) + 1
                     /\ SubSeq(warnings', 1, Len(warnings)) = warnings
                     /\ warnings'[Len(warnings')].entry = i]_vars

\* a skipped entry between two written ones
C5_Witness ==
    /\ pc = "done"
    /\ \E k \in Processed :
        /\ InRange(k) /\ ReadInFull(k) /\ Entry(k).method_id = 1 /\ ~Decodes(k)
        /\ Entry(k).size >= 4
        /\ PrimaryWrites(k) = {} /\ ConvertedWrites(k) = {}
        /\ PrimaryWrites(k - 1) # {} /\ PrimaryWrites(k + 1) # {}

----------------------------------------------------------------------------
(* C6, C7, C8: the converter *)

\* the entries the converter is given: written, with conversion enabled
Converted(n) == do_convert /\ writes[n].kind = "primary"

\* the signatures that occur in data, by their place in the list magics
Hits(data) == {m \in 1..Len(magics) : Find(data, magics[m].magic) # -1}

\* the signature whose first occurrence comes first in data, the list order
\* deciding between two at the same offset
Earliest(data) ==
    CHOOSE m \in Hits(data) :
        \A o \in Hits(data) :
            \/ Find(data, magics[m].magic) < Find(data, magics[o].magic)
            \/ Find(data, magics[m].magic) = Find(data, magics[o].magic) /\ m <= o

\* C6: for a gscene entry whose payload holds one of the signatures, the
\* converted file is named after the signature that occurs first in the payload
\* and holds the payload from that occurrence on.
C6_EarliestSignature ==
    \A n \in DOMAIN writes :
        Converted(n) /\ ExtName(writes[n].entry) = gscene /\ Hits(writes[n].data) # {}
        => \E c \in ConvertedWrites(writes[n].entry) :
              /\ EndsWith(writes[c].path, <<46>> \o magics[Earliest(writes[n].data)].ext)
              /\ writes[c].data
                   = From(writes[n].data,
                          Find(writes[n].data, magics[Earliest(writes[n].data)].magic))

\* the extensions of the recovered formats
RecoveredExts == {ogg, wav, dds, jpg, png, webm}

\* "out/_converted/"
ConvertedRoot == out_dir \o <<47, 95, 99, 111, 110, 118, 101, 114, 116, 101, 100, 47>>

OtherSignatures ==
    {PngMagic, JpegSOI, RIFF, DDS, <<26, 69, 223, 163>>}

\* C8: a gscene payload that holds the Ogg signature "OggS" (the one the sound
\* rule accepts) and no other signature is converted to an .ogg file that starts
\* at the signature.
C8_GsceneOgg ==
    \A n \in DOMAIN writes :
        /\ Converted(n) /\ ExtName(writes[n].entry) = gscene
        /\ Find(writes[n].data, OggS) # -1
        /\ \A sig \in OtherSignatures : Find(writes[n].data, sig) = -1
        => \E c \in ConvertedWrites(writes[n].entry) :
              /\ EndsWith(writes[c].path, <<46>> \o ogg)
              /\ writes[c].data = From(writes[n].data, Find(writes[n].data, OggS))

----------------------------------------------------------------------------
(* C9 *)

\* C9: the bytes written for an entry of method 1 are the decompression of its
\* block after the first 4 bytes (compressing them gives back the stream), in
\* full, with a warning exactly when their length is not the declared one; the
\* bytes written for an entry of any other method are its block.
C9_PayloadByMethod ==
    \A n \in DOMAIN writes :
        writes[n].kind = "primary"
        => LET k == writes[n].entry
           IN  IF Entry(k).method_id = 1
               THEN /\ Entry(k).size >= 4
                    /\ StartsWith(From(Block(k), 4), ZlibStored(writes[n].data))
                    /\ (Len(writes[n].data) # LE32(Block(k)))
                         = (\E w \in WarningsOf(k) : warnings[w].kind = "size mismatch")
               ELSE writes[n].data = Block(k) /\ WarningsOf(k) = {}

\* a stream that decompresses to another length than declared, written in full,
\* and a block of method 2 that holds a zlib stream, written as it is
C9_Witness ==
    /\ pc = "done"
    /\ \E n \in DOMAIN writes :
          /\ writes[n].kind = "primary" /\ Entry(writes[n].entry).method_id = 1
          /\ Len(writes[n].data) # LE32(Block(writes[n].entry))
          /\ writes[n].data # <<>>
    /\ \E n \in DOMAIN writes :
          /\ writes[n].kind = "primary" /\ Entry(writes[n].entry).method_id = 2
          /\ WellFormed(From(writes[n].data, 4))

----------------------------------------------------------------------------
(* C10 *)

\* the strings of a table
Names(table) == {table[k] : k \in DOMAIN table}

\* C10 as stated: the counter of "{g}.{e}" is the number of processed entries
\* with indices in range, group g and extension e.
C10_Original ==
    \A g \in Names(groups), e \in Names(exts) :
        counts_get(name_counts, g \o <<46>> \o e)
          = Cardinality({k \in Processed : InRange(k) /\ GroupName(k) = g /\ ExtName(k) = e})

\* C10 amended: the counter of a base name is the number of processed entries
\* with indices in range whose "{group}.{extension}" is that string, written or
\* not; an entry with an index out of range changes no counter.
C10_CounterCountsBaseNames ==
    \A b \in (DOMAIN name_counts) \cup {g \o <<46>> \o e : g \in Names(groups), e \in Names(exts)} :
        counts_get(name_counts, b)
          = Cardinality({k \in Processed : InRange(k) /\ BaseName(k) = b})

\* the first entry of a name was not read in full, so that the second one is
\* written with the suffix _02 and no file has the name without a suffix; an
\* entry with a bad index lies between them
C10_Witness ==
    /\ pc = "done" /\ Len(entries) = 3
    /\ InRange(0) /\ ~ReadInFull(0) /\ ~InRange(1) /\ InRange(2)
    /\ BaseName(2) = BaseName(0)
    /\ counts_get(name_counts, BaseName(0)) = 2
    /\ \E n \in PrimaryWrites(2) : writes[n].path = SpecPath(GroupName(2), ExtName(2), 2)
    /\ \A f \in files : f.path # SpecPath(GroupName(2), ExtName(2), 1)

====
